---- MODULE Spec2Model ----
(***************************************************************************)
(* Transaction reconciliation of the payment processor: the three request  *)
(* handlers of src/server.js (POST /payments/initialize, POST              *)
(* /payments/webhook, GET /payments/verify/:reference), the transactions   *)
(* table of the Database module and NotificationService.notifyAdmin.       *)
(*                                                                         *)
(* Every handler is an async function: it runs atomically between two      *)
(* awaits.  A step of the model is one awaited operation (a provider call, *)
(* a table read or write, a relay call) together with the synchronous code *)
(* that follows it up to the next await.  Handlers of different requests   *)
(* interleave at the awaits (Spec); SeqSpec handles one request at a time. *)
(***************************************************************************)
EXTENDS Naturals, Sequences, FiniteSets, TLC

VARIABLES db, h, sent, prev, clock

vars == <<db, h, sent, prev, clock>>

(***************************************************************************)
(* Bounds of the model.                                                    *)
(***************************************************************************)
MaxRequests == 3

MaxInFlight == 2

Refs == {"R1"}

Slots == 1..MaxInFlight

\* Secondary-currency amounts; 0 stands for every falsy value (0, "", absent).
UsdAmounts == {0, 25, 50}

\* An absent object key (undefined).
Undef == 99

\* verified_at of a row that was never verified (SQL NULL).
NullTime == 0

(***************************************************************************)
(* Metadata.  An object is a function from MetaKeys to a value or Undef;   *)
(* the metadata column holds its JSON text, modelled as the set of         *)
(* <<key, value>> pairs of the keys that are defined.                      *)
(***************************************************************************)
MetaKeys == {"custom_fields", "originalAmountUSD", "campaign"}

EmptyObject == [k \in MetaKeys |-> Undef]

JSONstringify(obj) == {<<k, obj[k]>> : k \in {x \in MetaKeys : obj[x] # Undef}}

JSONparse(text) ==
    [k \in MetaKeys |->
        IF \E p \in text : p[1] = k
        THEN (CHOOSE p \in text : p[1] = k)[2]
        ELSE Undef]

\* x || 0
OrZero(x) == IF x = Undef THEN 0 ELSE x

\* The metadata of an initialize request body: undefined, or an object with an
\* optional originalAmountUSD and an optional further key.
RequestMetadata ==
    {<<>>} \cup
    {<<[originalAmountUSD |-> u, campaign |-> c]>> :
        u \in {Undef, 50}, c \in {Undef, 7}}

\* fullMetadata of the initialize handler.
FullMetadata(metadata) ==
    LET usd == IF metadata = <<>> THEN 0 ELSE OrZero(metadata[1].originalAmountUSD)
    IN  [k \in MetaKeys |->
            CASE k = "custom_fields" -> usd
              [] k = "originalAmountUSD" -> usd
              [] k = "campaign" ->
                    IF metadata = <<>> THEN Undef ELSE metadata[1].campaign]

\* The metadata a webhook event or a verify response carries: absent, a string
\* that does not parse, or an object with an optional original_amount_usd
\* custom field (cf) and an optional originalAmountUSD property (root).
BadJSON == [cf |-> Undef, root |-> Undef, bad |-> TRUE]

IncomingMetadata ==
    {<<>>, <<BadJSON>>} \cup
    {<<[cf |-> c, root |-> r, bad |-> FALSE]>> :
        c \in {Undef, 0, 50}, r \in {Undef, 25}}

\* The amount extracted from incoming metadata (custom field first, then the
\* direct property); 0 when absent or when parsing throws.
ExtractUSD(metadata) ==
    IF metadata = <<>> THEN 0
    ELSE IF metadata[1].bad THEN 0
    ELSE LET fromField == OrZero(metadata[1].cf)
         IN  IF fromField = 0 /\ OrZero(metadata[1].root) # 0
             THEN metadata[1].root
             ELSE fromField

(***************************************************************************)
(* The transactions table.  db[r] is <<>> when no row has reference r and  *)
(* <<row>> otherwise.                                                      *)
(***************************************************************************)
Columns == {"status", "verified_at", "updated_at", "metadata"}

\* INSERT INTO transactions: a new row, verified_at NULL.
\* The row with the DEFAULT of the status column instead of the given status.
InsertedRow_DefaultStatus(transaction, t) ==
    [status |-> "pending",
     verified_at |-> NullTime,
     updated_at |-> t,
     metadata |-> JSONstringify(transaction.metadata)]

InsertedRow(transaction, t) ==
    [status |-> transaction.status,
     verified_at |-> NullTime,
     updated_at |-> t,
     metadata |-> JSONstringify(transaction.metadata)]

LogTransaction(table, reference, transaction, t) ==
    [table EXCEPT ![reference] = Append(@, InsertedRow(transaction, t))]

\* A table without the UNIQUE constraint on reference.
UniqueViolation_Never(table, reference) == FALSE

\* reference TEXT UNIQUE NOT NULL: the INSERT of an existing reference fails.
UniqueViolation(table, reference) == table[reference] # <<>>

\* UPDATE transactions SET <updates>, updated_at = CURRENT_TIMESTAMP WHERE
\* reference = ?: no row matched is no error (zero changes).
\* An UPDATE that stamps verified_at as it stamps updated_at.
UpdateTransaction_StampsVerifiedAt(table, reference, updates, t) ==
    IF table[reference] = <<>>
    THEN table
    ELSE [table EXCEPT ![reference] =
            <<[c \in Columns |->
                IF c \in DOMAIN updates THEN updates[c]
                ELSE IF c \in {"updated_at", "verified_at"} THEN t
                ELSE table[reference][1][c]]>>]

UpdateTransaction(table, reference, updates, t) ==
    IF table[reference] = <<>>
    THEN table
    ELSE [table EXCEPT ![reference] =
            <<[c \in Columns |->
                IF c \in DOMAIN updates THEN updates[c]
                ELSE IF c = "updated_at" THEN t
                ELSE table[reference][1][c]]>>]

\* updateTransaction: what the promise resolves with, this.changes, the number
\* of rows the UPDATE matched; no row is not an error.
Changes(table, reference) == IF table[reference] # <<>> THEN 1 ELSE 0

GetTransaction(table, reference) == table[reference]

(***************************************************************************)
(* Decisions of the handlers.                                              *)
(***************************************************************************)
InnerStatuses == {"success", "failed", "abandoned", "pending", "reversed"}

EventTypes == {"charge.success", "transfer.success"}

StoredUSD(cur) == OrZero(JSONparse(cur[1].metadata)["originalAmountUSD"])

\* The guard left out.
AlreadyCompleted_Never(cur) == FALSE

\* Webhook: currentTransaction && currentTransaction.status === 'completed'.
AlreadyCompleted(cur) == cur # <<>> /\ cur[1].status = "completed"

\* Webhook: originalAmountUSD, falling back to the stored one.
WebhookUSD(metadata, cur) ==
    LET incoming == ExtractUSD(metadata)
    IN  IF incoming = 0 /\ cur # <<>> THEN StoredUSD(cur) ELSE incoming

\* Verify: originalAmountUSD, from the provider response alone.
VerifyUSD(metadata, cur) == ExtractUSD(metadata)

\* updatedMetadata started from {} whatever is stored.
UpdatedMetadata_Fresh(cur, originalAmountUSD) ==
    [EmptyObject EXCEPT !["originalAmountUSD"] = originalAmountUSD]

\* updatedMetadata: the metadata read with currentTransaction, with
\* originalAmountUSD set.
UpdatedMetadata(cur, originalAmountUSD) ==
    LET base == IF cur # <<>> THEN JSONparse(cur[1].metadata) ELSE EmptyObject
    IN  [base EXCEPT !["originalAmountUSD"] = originalAmountUSD]

\* The update without verified_at.
CompletedUpdates_NoVerifiedAt(cur, originalAmountUSD, t) ==
    [status |-> "completed",
     metadata |-> JSONstringify(UpdatedMetadata(cur, originalAmountUSD))]

\* The fields of the update to completed.
CompletedUpdates(cur, originalAmountUSD, t) ==
    [status |-> "completed",
     verified_at |-> t,
     metadata |-> JSONstringify(UpdatedMetadata(cur, originalAmountUSD))]

\* The HMAC-SHA512 of the raw body under the secret key, and the values the
\* x-paystack-signature header of a delivery may hold: that digest or another.
Hash == "hmac"

Signatures == {"hmac", "forged"}

\* Every event type handled as a charge.
IsChargeSuccess_AnyEvent(event) == TRUE

\* Webhook: event.event === 'charge.success'.
IsChargeSuccess(event) == event = "charge.success"

\* Every header accepted.
SignatureMatches_Always(hash, signature) == TRUE

\* Webhook: hash !== req.headers['x-paystack-signature'] rejects.
SignatureMatches(hash, signature) == hash = signature

\* Verify: dbStatus.
DbStatus(cur) == IF cur # <<>> THEN cur[1].status ELSE "not_found"

\* The provider status stored as it is.
UpdateStatus_Raw(paymentStatus) == paymentStatus

\* Webhook, inner status other than success: { status: eventData.status }
\* with the status mapped to failed.
PassThroughUpdates_Failed(status) == [status |-> "failed"]

\* Webhook, inner status other than success: { status: eventData.status }.
PassThroughUpdates(status) == [status |-> status]

\* Verify: statusMap[paymentStatus] || 'failed'.
UpdateStatus(paymentStatus) ==
    IF paymentStatus \in {"failed", "abandoned", "pending"}
    THEN paymentStatus
    ELSE "failed"

\* The else-if branch of a completed record left out.
VerifyBranch_NoCompletedBranch(envelope, paymentStatus, dbStatus) ==
    IF envelope /\ paymentStatus = "success" /\ dbStatus # "completed"
    THEN "success"
    ELSE "other"

\* The success branch without its test of dbStatus.
VerifyBranch_SuccessFirst(envelope, paymentStatus, dbStatus) ==
    IF envelope /\ paymentStatus = "success"
    THEN "success"
    ELSE IF dbStatus = "completed" THEN "completed" ELSE "other"

\* The success branch taken for a record that is still initiated only.
VerifyBranch_OnlyInitiated(envelope, paymentStatus, dbStatus) ==
    IF envelope /\ paymentStatus = "success" /\ dbStatus = "initiated"
    THEN "success"
    ELSE IF dbStatus = "completed" THEN "completed" ELSE "other"

\* Verify: which branch of the if / else if / else is taken.
\* The success branch decided by the inner status alone.
VerifyBranch_IgnoresEnvelope(envelope, paymentStatus, dbStatus) ==
    IF paymentStatus = "success" /\ dbStatus # "completed"
    THEN "success"
    ELSE IF dbStatus = "completed" THEN "completed" ELSE "other"

VerifyBranch(envelope, paymentStatus, dbStatus) ==
    IF envelope /\ paymentStatus = "success" /\ dbStatus # "completed"
    THEN "success"
    ELSE IF dbStatus = "completed" THEN "completed" ELSE "other"

\* Verify: if (dbStatus !== updateStatus) before the status update.
NeedsStatusUpdate_Always(dbStatus, updateStatus) == TRUE
NeedsStatusUpdate(dbStatus, updateStatus) == dbStatus # updateStatus

\* The test inverted.
NotifyCompleted_Inverted(transaction) == transaction = <<>>

\* if (transaction) before the completed notification.
NotifyCompleted(transaction) == transaction # <<>>

\* Verify: transaction && transaction.status === updateStatus.
NotifyMappedStatus(transaction, updateStatus) ==
    transaction # <<>> /\ transaction[1].status = updateStatus

(***************************************************************************)
(* Notifications.                                                          *)
(***************************************************************************)
Labels ==
    {"initiated", "completed (via Webhook)", "completed (via Verification)",
     "failed (via Verification)", "abandoned (via Verification)",
     "pending (via Verification)"}

CompletedLabels == {"completed (via Webhook)", "completed (via Verification)"}

RelayOutcomes == {"200", "non200", "error"}

(***************************************************************************)
(* Handlers.  h[s] is the request being handled in slot s; prev is the     *)
(* request answered last.                                                  *)
(***************************************************************************)
\* sendWhatsAppNotification: true on a 200 of the relay, false on any other
\* status and on an error, which it catches.
SendWhatsAppNotification(outcome) == outcome = "200"

\* notifyAdmin: the result of sendWhatsAppNotification is awaited and dropped,
\* and the function returns true.
NotifyAdminResult(outcome) ==
    LET delivered == SendWhatsAppNotification(outcome) IN TRUE

Idle ==
    [kind |-> "none", pc |-> "idle", ref |-> "-", event |-> "-",
     status |-> "-", envelope |-> FALSE, cur |-> <<>>, curStatus |-> "unread",
     inUSD |-> 0, usd |-> 0, writes |-> 0, sig |-> "-"]

NoRequest ==
    [kind |-> "none", ref |-> "-", sig |-> "-", event |-> "-", status |-> "-",
     envelope |-> FALSE, curStatus |-> "unread", writes |-> 0,
     fired |-> "none", relay |-> "none", fault |-> FALSE, code |-> 0,
     dbStatus |-> "-", notified |-> FALSE]

Answered(hs, code, dbStatus, fired, relay, fault) ==
    [kind |-> hs.kind, ref |-> hs.ref, sig |-> hs.sig, event |-> hs.event,
     status |-> hs.status, envelope |-> hs.envelope,
     curStatus |-> hs.curStatus, writes |-> hs.writes,
     fired |-> fired, relay |-> relay, fault |-> fault, code |-> code,
     dbStatus |-> dbStatus,
     notified |-> fired # "none" /\ NotifyAdminResult(relay)]

\* The response is sent and the handler ends.
Respond(s, hs, code, dbStatus) ==
    /\ h' = [h EXCEPT ![s] = Idle]
    /\ prev' = Answered(hs, code, dbStatus, "none", "none", FALSE)

\* A catch that swallows the rejected storage promise and acknowledges.
StorageFault_Acknowledged(s) ==
    /\ h' = [h EXCEPT ![s] = Idle]
    /\ prev' = Answered(h[s], 200, "-", "none", "none", TRUE)

\* catch of a rejected storage promise (an error with neither response nor
\* request): 500.
StorageFault(s) ==
    /\ h' = [h EXCEPT ![s] = Idle]
    /\ prev' = Answered(h[s], 500, "-", "none", "none", TRUE)

\* The handler goes on to its next await.
Goto(s, hs) ==
    /\ h' = [h EXCEPT ![s] = hs]
    /\ UNCHANGED prev

LowestIdle(s) ==
    /\ h[s].pc = "idle"
    /\ \A t \in Slots : t < s => h[t].pc # "idle"

\* A request arrives.
Arrive(s) ==
    /\ LowestIdle(s)
    /\ clock < MaxRequests
    /\ clock' = clock + 1
    /\ UNCHANGED <<db, sent>>

\* await notificationService.notifyAdmin(transaction, label): one relay call,
\* whose failure is caught; then the response.
\* notifyAdmin letting the failure of the relay escape into the catch of the
\* handler.
NotifyAdmin_Throws(s, label, code, dbStatus) ==
    \E outcome \in RelayOutcomes :
        /\ sent' = [sent EXCEPT ![h[s].ref][label] = @ + 1]
        /\ h' = [h EXCEPT ![s] = Idle]
        /\ prev' = IF outcome = "200"
                   THEN Answered(h[s], code, dbStatus, label, outcome, FALSE)
                   ELSE Answered(h[s], 500, "-", label, outcome, FALSE)

NotifyAdmin(s, label, code, dbStatus) ==
    \E outcome \in RelayOutcomes :
        /\ sent' = [sent EXCEPT ![h[s].ref][label] = @ + 1]
        /\ h' = [h EXCEPT ![s] = Idle]
        /\ prev' = Answered(h[s], code, dbStatus, label, outcome, FALSE)

(***************************************************************************)
(* POST /payments/webhook                                                  *)
(***************************************************************************)
\* Signature check, JSON.parse and the dispatch on event.event.
StartWebhook(s) ==
    \E r \in Refs, signature \in Signatures, ev \in EventTypes :
        LET req == [Idle EXCEPT !.kind = "webhook", !.ref = r,
                                !.sig = signature]
            parsed == [req EXCEPT !.event = ev]
        IN  /\ Arrive(s)
            /\ IF ~SignatureMatches(Hash, signature)
               THEN Respond(s, req, 401, "-")
               ELSE IF IsChargeSuccess(ev)
                    THEN Goto(s, [parsed EXCEPT !.pc = "w_read"])
                    ELSE Respond(s, parsed, 200, "-")

\* await database.getTransaction(reference), the idempotency guard, the test
\* of eventData.status and, for success, the extraction of the amount.
WebhookRead(s) ==
    /\ h[s].pc = "w_read"
    /\ UNCHANGED <<db, sent, clock>>
    /\ \/ StorageFault(s)
       \/ LET cur == GetTransaction(db, h[s].ref)
              hs == [h[s] EXCEPT !.cur = cur, !.curStatus = DbStatus(cur)]
          IN  IF AlreadyCompleted(cur)
              THEN Respond(s, hs, 200, "-")
              ELSE \E st \in InnerStatuses :
                    IF st = "success"
                    THEN \E metadata \in IncomingMetadata :
                            Goto(s, [hs EXCEPT
                                !.pc = "w_update",
                                !.status = st,
                                !.inUSD = ExtractUSD(metadata),
                                !.usd = WebhookUSD(metadata, cur)])
                    ELSE Goto(s, [hs EXCEPT !.pc = "w_passthrough",
                                            !.status = st])

\* await database.updateTransaction(reference, {status: 'completed', ...}).
WebhookUpdate(s) ==
    /\ h[s].pc = "w_update"
    /\ UNCHANGED <<sent, clock>>
    /\ \/ StorageFault(s) /\ UNCHANGED db
       \/ /\ db' = UpdateTransaction(db, h[s].ref,
                       CompletedUpdates(h[s].cur, h[s].usd, clock), clock)
          /\ Goto(s, [h[s] EXCEPT !.pc = "w_reload", !.writes = @ + 1])

\* const transaction = await database.getTransaction(reference).
WebhookReload(s) ==
    /\ h[s].pc = "w_reload"
    /\ UNCHANGED <<db, sent, clock>>
    /\ \/ StorageFault(s)
       \/ IF NotifyCompleted(GetTransaction(db, h[s].ref))
          THEN Goto(s, [h[s] EXCEPT !.pc = "w_notify"])
          ELSE Respond(s, h[s], 200, "-")

\* await notificationService.notifyAdmin(...), then res.sendStatus(200).
WebhookNotify(s) ==
    /\ h[s].pc = "w_notify"
    /\ NotifyAdmin(s, "completed (via Webhook)", 200, "-")
    /\ UNCHANGED <<db, clock>>

\* await database.updateTransaction(reference, {status: eventData.status}).
\* The update started but not awaited: the acknowledgment is sent while the
\* write is pending.
WebhookPassThrough_NotAwaited(s) ==
    /\ h[s].pc = "w_passthrough"
    /\ UNCHANGED <<db, sent, clock>>
    /\ Respond(s, [h[s] EXCEPT !.writes = @ + 1], 200, "-")

WebhookPassThrough(s) ==
    /\ h[s].pc = "w_passthrough"
    /\ UNCHANGED <<sent, clock>>
    /\ \/ StorageFault(s) /\ UNCHANGED db
       \/ /\ db' = UpdateTransaction(db, h[s].ref,
                       PassThroughUpdates(h[s].status), clock)
          /\ Respond(s, [h[s] EXCEPT !.writes = @ + 1], 200, "-")

(***************************************************************************)
(* GET /payments/verify/:reference                                         *)
(***************************************************************************)
StartVerify(s) ==
    \E r \in Refs :
        /\ Arrive(s)
        /\ Goto(s, [Idle EXCEPT !.kind = "verify", !.ref = r,
                                !.pc = "v_provider"])

\* await axios.get(.../transaction/verify/<reference>): a response, an error
\* response, or no response.
VerifyProvider(s) ==
    /\ h[s].pc = "v_provider"
    /\ UNCHANGED <<db, sent, clock>>
    /\ \/ \E envelope \in BOOLEAN, st \in InnerStatuses :
            Goto(s, [h[s] EXCEPT !.pc = "v_read", !.envelope = envelope,
                                 !.status = st])
       \/ Respond(s, h[s], 404, "-")
       \/ Respond(s, h[s], 503, "-")

\* await database.getTransaction(reference) and the choice of the branch.
VerifyRead(s) ==
    /\ h[s].pc = "v_read"
    /\ UNCHANGED <<db, sent, clock>>
    /\ \/ StorageFault(s)
       \/ LET cur == GetTransaction(db, h[s].ref)
              hs == [h[s] EXCEPT !.cur = cur, !.curStatus = DbStatus(cur)]
              branch == VerifyBranch(h[s].envelope, h[s].status, DbStatus(cur))
          IN  CASE branch = "success" ->
                    \E metadata \in IncomingMetadata :
                        Goto(s, [hs EXCEPT
                            !.pc = "v_update",
                            !.inUSD = ExtractUSD(metadata),
                            !.usd = VerifyUSD(metadata, cur)])
                [] branch = "completed" ->
                    Respond(s, hs, 200, "completed_by_webhook")
                [] OTHER ->
                    IF NeedsStatusUpdate(DbStatus(cur), UpdateStatus(h[s].status))
                    THEN Goto(s, [hs EXCEPT !.pc = "v_setstatus"])
                    ELSE Goto(s, [hs EXCEPT !.pc = "v_recheck"])

\* await database.updateTransaction(reference, {status: 'completed', ...}).
VerifyUpdate(s) ==
    /\ h[s].pc = "v_update"
    /\ UNCHANGED <<sent, clock>>
    /\ \/ StorageFault(s) /\ UNCHANGED db
       \/ /\ db' = UpdateTransaction(db, h[s].ref,
                       CompletedUpdates(h[s].cur, h[s].usd, clock), clock)
          /\ Goto(s, [h[s] EXCEPT !.pc = "v_reload", !.writes = @ + 1])

\* const transaction = await database.getTransaction(reference).
VerifyReload(s) ==
    /\ h[s].pc = "v_reload"
    /\ UNCHANGED <<db, sent, clock>>
    /\ \/ StorageFault(s)
       \/ IF NotifyCompleted(GetTransaction(db, h[s].ref))
          THEN Goto(s, [h[s] EXCEPT !.pc = "v_notify"])
          ELSE Respond(s, h[s], 200, "updated_via_verification")

VerifyNotify(s) ==
    /\ h[s].pc = "v_notify"
    /\ NotifyAdmin(s, "completed (via Verification)", 200,
                   "updated_via_verification")
    /\ UNCHANGED <<db, clock>>

\* await database.updateTransaction(reference, {status: updateStatus}).
VerifySetStatus(s) ==
    /\ h[s].pc = "v_setstatus"
    /\ UNCHANGED <<sent, clock>>
    /\ \/ StorageFault(s) /\ UNCHANGED db
       \/ /\ db' = UpdateTransaction(db, h[s].ref,
                       [status |-> UpdateStatus(h[s].status)], clock)
          /\ Goto(s, [h[s] EXCEPT !.pc = "v_recheck", !.writes = @ + 1])

\* const transaction = await database.getTransaction(reference) of the else
\* branch.
VerifyRecheck(s) ==
    /\ h[s].pc = "v_recheck"
    /\ UNCHANGED <<db, sent, clock>>
    /\ \/ StorageFault(s)
       \/ IF NotifyMappedStatus(GetTransaction(db, h[s].ref),
                                UpdateStatus(h[s].status))
          THEN Goto(s, [h[s] EXCEPT !.pc = "v_notifystatus"])
          ELSE Respond(s, h[s], 400, "-")

VerifyNotifyStatus(s) ==
    /\ h[s].pc = "v_notifystatus"
    /\ NotifyAdmin(s, UpdateStatus(h[s].status) \o " (via Verification)",
                   400, "-")
    /\ UNCHANGED <<db, clock>>

(***************************************************************************)
(* POST /payments/initialize                                               *)
(***************************************************************************)
\* Validation of amount and email, and the new reference.
StartInitialize(s) ==
    \E valid \in BOOLEAN, r \in Refs :
        LET req == [Idle EXCEPT !.kind = "initialize"]
        IN  /\ Arrive(s)
            /\ IF ~valid THEN Respond(s, req, 400, "-")
               ELSE Goto(s, [req EXCEPT !.pc = "i_provider", !.ref = r])

\* await axios.post(.../transaction/initialize): status true, status not
\* true, an error response, or no response.
\* The record logged before the answer of the provider is known.
InitializeProvider_LogFirst(s) ==
    /\ h[s].pc = "i_provider"
    /\ UNCHANGED <<sent, clock>>
    /\ db' = IF UniqueViolation(db, h[s].ref) THEN db
             ELSE LogTransaction(db, h[s].ref,
                      [status |-> "initiated",
                       metadata |-> FullMetadata(<<>>)], clock)
    /\ \/ Goto(s, [h[s] EXCEPT !.pc = "i_log", !.envelope = TRUE])
       \/ Respond(s, h[s], 400, "-")
       \/ Respond(s, h[s], 401, "-")
       \/ Respond(s, h[s], 503, "-")

InitializeProvider(s) ==
    /\ h[s].pc = "i_provider"
    /\ UNCHANGED <<db, sent, clock>>
    /\ \/ Goto(s, [h[s] EXCEPT !.pc = "i_log", !.envelope = TRUE])
       \/ Respond(s, h[s], 400, "-")
       \/ Respond(s, h[s], 401, "-")
       \/ Respond(s, h[s], 503, "-")

\* await database.logTransaction(transactionData), with the fullMetadata of
\* the request body.
InitializeLog(s) ==
    /\ h[s].pc = "i_log"
    /\ UNCHANGED <<sent, clock>>
    /\ \/ StorageFault(s) /\ UNCHANGED db
       \/ \E metadata \in RequestMetadata :
            /\ ~UniqueViolation(db, h[s].ref)
            /\ db' = LogTransaction(db, h[s].ref,
                        [status |-> "initiated",
                         metadata |-> FullMetadata(metadata)], clock)
            /\ Goto(s, [h[s] EXCEPT !.pc = "i_notify", !.writes = @ + 1])

InitializeNotify(s) ==
    /\ h[s].pc = "i_notify"
    /\ NotifyAdmin(s, "initiated", 200, "-")
    /\ UNCHANGED <<db, clock>>

(***************************************************************************)
(* The server.                                                             *)
(***************************************************************************)
Init ==
    /\ db = [r \in Refs |-> <<>>]
    /\ h = [s \in Slots |-> Idle]
    /\ sent = [r \in Refs |-> [l \in Labels |-> 0]]
    /\ prev = NoRequest
    /\ clock = 0

Start(s) ==
    \/ StartInitialize(s)
    \/ StartWebhook(s)
    \/ StartVerify(s)

Step(s) ==
    \/ InitializeProvider(s)
    \/ InitializeLog(s)
    \/ InitializeNotify(s)
    \/ WebhookRead(s)
    \/ WebhookUpdate(s)
    \/ WebhookReload(s)
    \/ WebhookNotify(s)
    \/ WebhookPassThrough(s)
    \/ VerifyProvider(s)
    \/ VerifyRead(s)
    \/ VerifyUpdate(s)
    \/ VerifyReload(s)
    \/ VerifyNotify(s)
    \/ VerifySetStatus(s)
    \/ VerifyRecheck(s)
    \/ VerifyNotifyStatus(s)

Next == \E s \in Slots : Start(s) \/ Step(s)

Spec == Init /\ [][Next]_vars

\* One request at a time: a request arrives when no other is being handled.
AllIdle == \A s \in Slots : h[s].pc = "idle"

SeqNext == \E s \in Slots : (AllIdle /\ Start(s)) \/ Step(s)

SeqSpec == Init /\ [][SeqNext]_vars

(***************************************************************************)
(* Properties.                                                             *)
(***************************************************************************)
Exists(r) == db[r] # <<>>

StatusOf(table, r) == DbStatus(table[r])

NotCompleted == {"initiated", "pending", "failed", "abandoned", "reversed"}

ViaWebhook == "completed (via Webhook)"

ViaVerification == "completed (via Verification)"

\* Handler s took the step and did not end in the catch of a storage fault.
Proceeds(s) == h'[s] # h[s] /\ (h'[s].pc = "idle" => ~prev'.fault)

\* C1: with requests handled one at a time, once the stored status of a
\* reference is completed no step of any webhook or verify handler changes it.
C1_CompletedIsAbsorbing ==
    [][\A r \in Refs :
        StatusOf(db, r) = "completed" => StatusOf(db', r) = "completed"]_vars

\* A verify poll with provider status abandoned has been handled after the
\* completion, and the status is still completed.
C1_Witness ==
    /\ prev.kind = "verify"
    /\ prev.curStatus = "completed"
    /\ prev.status = "abandoned"
    /\ StatusOf(db, prev.ref) = "completed"

\* C2: a verify poll that follows a verify poll for the same reference with
\* the same non-success provider status fires no notification.
C2_RepeatedVerifyIsSilent ==
    [][\A s \in Slots :
        (/\ h[s].kind = "verify"
         /\ h[s].status \in InnerStatuses \ {"success"}
         /\ prev.kind = "verify"
         /\ prev.ref = h[s].ref
         /\ prev.status = h[s].status
         /\ prev.code = 400)
        => sent' = sent]_vars

\* The second of two deliveries of a charge.success event: it follows an
\* acknowledged charge.success / success delivery for the same reference that
\* found a record that was not completed.
Replay(s) ==
    /\ h[s].kind = "webhook"
    /\ h[s].event = "charge.success"
    /\ prev.kind = "webhook"
    /\ prev.event = "charge.success"
    /\ prev.status = "success"
    /\ prev.code = 200
    /\ prev.ref = h[s].ref
    /\ prev.curStatus \in NotCompleted

\* C3: of two deliveries in a row of a charge.success / success event for an
\* existing record that was not completed, the first writes once and fires the
\* one 'completed (via Webhook)' notification, and the second changes no field
\* of the record, fires nothing and writes nothing.
C3_WebhookReplay ==
    [][\A s \in Slots :
        Replay(s) =>
            /\ prev.fired = ViaWebhook
            /\ prev.writes = 1
            /\ sent[h[s].ref][ViaWebhook] = 1
            /\ db' = db
            /\ sent' = sent
            /\ h'[s].pc \in {"w_read", "idle"}
            /\ h'[s].pc = "idle" =>
                    /\ prev'.fired = "none"
                    /\ prev'.writes = 0
                    /\ prev'.code \in {200, 500}
                    /\ prev'.code = 500 <=> prev'.fault]_vars

\* The second delivery has been acknowledged.
C3_Witness ==
    /\ prev.kind = "webhook"
    /\ prev.event = "charge.success"
    /\ prev.curStatus = "completed"
    /\ prev.code = 200
    /\ prev.fired = "none"
    /\ sent[prev.ref][ViaWebhook] = 1
    /\ sent[prev.ref][ViaVerification] = 0

\* C4: a completion update whose event or provider response carries no
\* secondary amount keeps a stored non-zero originalAmountUSD.
C4_AmountRetained ==
    [][\A s \in Slots :
        (/\ h[s].pc \in {"w_update", "v_update"}
         /\ h[s].inUSD = 0
         /\ Exists(h[s].ref)
         /\ StoredUSD(db[h[s].ref]) # 0)
        => StoredUSD(db'[h[s].ref]) = StoredUSD(db[h[s].ref])]_vars

\* C5: a verify poll that read the stored status completed answers 200 with
\* dbStatus completed_by_webhook, having written nothing and fired nothing.
C5_VerifyOfCompleted ==
    (prev.kind = "verify" /\ prev.curStatus = "completed") =>
        /\ prev.code = 200
        /\ prev.dbStatus = "completed_by_webhook"
        /\ prev.writes = 0
        /\ prev.fired = "none"
        /\ ~prev.fault

\* A webhook completed the record and a verify poll with provider status
\* success was answered after it.
C5_Witness ==
    /\ prev.kind = "verify"
    /\ prev.curStatus = "completed"
    /\ prev.status = "success"
    /\ prev.envelope
    /\ prev.dbStatus = "completed_by_webhook"
    /\ sent[prev.ref][ViaWebhook] = 1

\* C6: a handler on its completion path never looks at the stored status
\* again: after its read found the record not completed, its update writes
\* completed over whatever is stored, and its reload leads to the
\* notification whenever the record exists, also when another handler has
\* completed the record in between.
C6_NoRecheckBeforeNotify ==
    [][\A s \in Slots :
        /\ (h[s].pc \in {"w_update", "v_update"} /\ Proceeds(s)
                /\ Exists(h[s].ref))
            => StatusOf(db', h[s].ref) = "completed"
        /\ (h[s].pc \in {"w_reload", "v_reload"} /\ Proceeds(s)
                /\ Exists(h[s].ref))
            => h'[s].pc \in {"w_notify", "v_notify"}
        /\ (h[s].pc \in {"w_notify", "v_notify"} /\ h'[s] # h[s])
            => \E l \in CompletedLabels :
                    sent'[h[s].ref][l] = sent[h[s].ref][l] + 1]_vars

\* The race: the webhook and the verify poll both read the status initiated,
\* both wrote completed and both fired a completed notification.
C6_Witness ==
    /\ prev.kind = "verify"
    /\ prev.curStatus = "initiated"
    /\ prev.fired = ViaVerification
    /\ sent[prev.ref][ViaWebhook] = 1
    /\ sent[prev.ref][ViaVerification] = 1
    /\ clock = 3

\* C7: no step of a verify handler changes a stored status that is completed.
C7_VerifyNeverOverwritesCompleted ==
    [][\A s \in Slots :
        (h[s].kind = "verify" /\ h'[s] # h[s]
            /\ StatusOf(db, h[s].ref) = "completed")
        => StatusOf(db', h[s].ref) = "completed"]_vars

\* C8: the stored status of every transaction is one of the five of the data
\* model.
C8_StatusInEnum ==
    \A r \in Refs :
        Exists(r) =>
            db[r][1].status \in
                {"initiated", "pending", "completed", "failed", "abandoned"}

\* C9: a charge.success webhook with inner status success that read an
\* existing record that is not completed goes on to the update, which sets
\* status completed and verified_at; without a storage fault it then fires the
\* one notification 'completed (via Webhook)' and is acknowledged.
C9_WebhookCompletes ==
    [][\A s \in Slots :
        LET r == h[s].ref IN
        /\ (h[s].pc = "w_read" /\ Proceeds(s) /\ h'[s].status = "success"
                /\ StatusOf(db, r) \in NotCompleted)
            => h'[s].pc = "w_update"
        /\ (h[s].pc = "w_update" /\ Proceeds(s) /\ h[s].cur # <<>>)
            => /\ StatusOf(db', r) = "completed"
               /\ db'[r][1].verified_at = clock
               /\ clock # NullTime
               /\ h'[s].pc = "w_reload"
        /\ (h[s].pc = "w_reload" /\ Proceeds(s) /\ h[s].cur # <<>>)
            => h'[s].pc = "w_notify"
        /\ (h[s].pc = "w_notify" /\ h'[s] # h[s])
            => /\ sent' = [sent EXCEPT ![r][ViaWebhook] = @ + 1]
               /\ prev'.fired = ViaWebhook
               /\ prev'.writes = 1
               /\ prev'.code = 200]_vars

\* Such a webhook has been acknowledged, for a record whose status was failed.
C9_Witness ==
    /\ prev.kind = "webhook"
    /\ prev.status = "success"
    /\ prev.curStatus = "failed"
    /\ prev.fired = ViaWebhook
    /\ prev.code = 200
    /\ StatusOf(db, prev.ref) = "completed"
    /\ db[prev.ref][1].verified_at # NullTime

\* C10: a verify poll to which the provider reports success, that read an
\* existing record that is not completed, goes on to the update, which sets
\* status completed and verified_at; without a storage fault it then fires the
\* one notification 'completed (via Verification)' and answers
\* updated_via_verification.
C10_VerifyCompletes ==
    [][\A s \in Slots :
        LET r == h[s].ref IN
        /\ (h[s].pc = "v_read" /\ Proceeds(s) /\ h[s].status = "success"
                /\ h[s].envelope /\ StatusOf(db, r) \in NotCompleted)
            => h'[s].pc = "v_update"
        /\ (h[s].pc = "v_update" /\ Proceeds(s) /\ h[s].cur # <<>>)
            => /\ StatusOf(db', r) = "completed"
               /\ db'[r][1].verified_at = clock
               /\ clock # NullTime
               /\ h'[s].pc = "v_reload"
        /\ (h[s].pc = "v_reload" /\ Proceeds(s) /\ h[s].cur # <<>>)
            => h'[s].pc = "v_notify"
        /\ (h[s].pc = "v_notify" /\ h'[s] # h[s])
            => /\ sent' = [sent EXCEPT ![r][ViaVerification] = @ + 1]
               /\ prev'.fired = ViaVerification
               /\ prev'.writes = 1
               /\ prev'.code = 200
               /\ prev'.dbStatus = "updated_via_verification"]_vars

\* Such a verify poll has been answered, for a record whose status was
\* abandoned.
C10_Witness ==
    /\ prev.kind = "verify"
    /\ prev.status = "success"
    /\ prev.curStatus = "abandoned"
    /\ prev.fired = ViaVerification
    /\ prev.dbStatus = "updated_via_verification"
    /\ StatusOf(db, prev.ref) = "completed"
    /\ db[prev.ref][1].verified_at # NullTime

\* The mapping of C11: failed, abandoned and pending to themselves, any other
\* provider status to failed.
MappedStatus(paymentStatus) ==
    CASE paymentStatus = "failed" -> "failed"
      [] paymentStatus = "abandoned" -> "abandoned"
      [] paymentStatus = "pending" -> "pending"
      [] OTHER -> "failed"

\* C11: a verify poll that is not reported as a success, for an existing
\* record that is not completed and whose status differs from the mapped
\* status, goes on to the update, which stores the mapped status; without a
\* storage fault it then fires the one notification '<mapped status> (via
\* Verification)' and answers 400.
C11_VerifyStoresMappedStatus ==
    [][\A s \in Slots :
        LET r == h[s].ref
            mapped == MappedStatus(h[s].status)
        IN
        /\ (h[s].pc = "v_read" /\ Proceeds(s)
                /\ ~(h[s].envelope /\ h[s].status = "success")
                /\ StatusOf(db, r) \in NotCompleted
                /\ StatusOf(db, r) # mapped)
            => h'[s].pc = "v_setstatus"
        /\ (h[s].pc = "v_setstatus" /\ Proceeds(s) /\ h[s].cur # <<>>)
            => /\ StatusOf(db', r) = mapped
               /\ db'[r][1].verified_at = db[r][1].verified_at
               /\ h'[s].pc = "v_recheck"
        /\ (h[s].pc = "v_recheck" /\ Proceeds(s) /\ h[s].writes = 1
                /\ h[s].cur # <<>>)
            => h'[s].pc = "v_notifystatus"
        /\ (h[s].pc = "v_notifystatus" /\ h'[s] # h[s])
            => /\ sent' = [sent EXCEPT
                            ![r][mapped \o " (via Verification)"] = @ + 1]
               /\ prev'.fired = mapped \o " (via Verification)"
               /\ prev'.code = 400]_vars

\* A poll with the unrecognized provider status reversed has been answered for
\* a record that was initiated: the record is failed, one notification.
C11_Witness ==
    /\ prev.kind = "verify"
    /\ prev.status = "reversed"
    /\ prev.curStatus = "initiated"
    /\ prev.writes = 1
    /\ prev.fired = "failed (via Verification)"
    /\ prev.code = 400
    /\ StatusOf(db, prev.ref) = "failed"
    /\ sent[prev.ref]["failed (via Verification)"] = 1

\* The request answered last was a verify poll of the reference of the poll in
\* slot s, the provider gave both polls the same answer, and the first poll
\* was handled to its end (200 or 400, no storage fault).
SecondPoll(s) ==
    /\ h[s].kind = "verify"
    /\ h[s].pc # "v_provider"
    /\ prev.kind = "verify"
    /\ prev.ref = h[s].ref
    /\ prev.status = h[s].status
    /\ prev.envelope = h[s].envelope
    /\ prev.code \in {200, 400}

\* C12: the second of two verify polls in a row with an unchanged provider
\* answer leaves the table as it is, whatever the provider status, success
\* included; for a stored record it issues no update at all.
C12_SecondVerifyWritesNothing ==
    [][\A s \in Slots :
        SecondPoll(s)
        => /\ db' = db
           /\ (Exists(h[s].ref) /\ h'[s] # h[s])
               => IF h'[s].pc = "idle" THEN prev'.writes = 0
                                       ELSE h'[s].writes = 0]_vars

\* Two polls with the provider status abandoned have been answered for a
\* stored record: the second read abandoned and wrote nothing.
C12_Witness ==
    /\ prev.kind = "verify"
    /\ prev.status = "abandoned"
    /\ prev.curStatus = "abandoned"
    /\ prev.writes = 0
    /\ prev.code = 400
    /\ sent[prev.ref]["abandoned (via Verification)"] = 2

\* C13: a charge.success delivery whose inner status is not success, for a
\* record that is not completed, goes to the pass-through update, which sets
\* the stored status to the raw inner status, fires no notification and is
\* acknowledged with 200.
C13_WebhookPassThrough ==
    [][\A s \in Slots :
        LET r == h[s].ref IN
        /\ (h[s].pc = "w_read" /\ Proceeds(s)
                /\ StatusOf(db, r) \in NotCompleted
                /\ h'[s].pc # "w_update")
            => /\ h'[s].pc = "w_passthrough"
               /\ h'[s].status \in InnerStatuses \ {"success"}
        /\ (h[s].pc = "w_passthrough" /\ Proceeds(s) /\ Exists(r))
            => /\ StatusOf(db', r) = h[s].status
               /\ db'[r][1].verified_at = db[r][1].verified_at
               /\ db'[r][1].metadata = db[r][1].metadata
               /\ sent' = sent
               /\ prev'.fired = "none"
               /\ prev'.code = 200]_vars

\* A delivery with the inner status reversed has been acknowledged for a
\* record that was initiated: the record is reversed, nothing was sent about it.
C13_Witness ==
    /\ prev.kind = "webhook"
    /\ prev.event = "charge.success"
    /\ prev.status = "reversed"
    /\ prev.curStatus = "initiated"
    /\ prev.code = 200
    /\ prev.fired = "none"
    /\ StatusOf(db, prev.ref) = "reversed"
    /\ sent[prev.ref]["initiated"] = 1
    /\ \A l \in Labels \ {"initiated"} : sent[prev.ref][l] = 0

\* C14: a delivery with a valid signature is answered 500 when one of its
\* storage operations failed and 200 otherwise; 200 is never the answer to a
\* delivery in which a storage operation failed.
C14_WebhookAcknowledgement ==
    (prev.kind = "webhook" /\ prev.sig = Hash)
    => /\ prev.fault => prev.code = 500
       /\ ~prev.fault => prev.code = 200

\* The reload after the completing update failed: the delivery was answered
\* 500, the write stays committed.
C14_Witness ==
    /\ prev.kind = "webhook"
    /\ prev.sig = Hash
    /\ prev.fault
    /\ prev.code = 500
    /\ prev.writes = 1
    /\ StatusOf(db, prev.ref) = "completed"

\* C15: a delivery whose signature header is not the digest of its body is
\* answered 401 in the step of its arrival: it never waits on a storage
\* operation, it read and wrote nothing, it fired no notification, and the
\* table and the notifications are as they were.
C15_BadSignatureRejected ==
    [][/\ \A s \in Slots :
            h'[s].kind = "webhook" => h'[s].sig = Hash
       /\ (clock' # clock /\ h' = h
                /\ prev'.kind = "webhook" /\ prev'.sig # Hash)
            => /\ prev'.code = 401
               /\ prev'.curStatus = "unread"
               /\ prev'.writes = 0
               /\ prev'.fired = "none"
               /\ ~prev'.fault
               /\ db' = db
               /\ sent' = sent]_vars

\* A forged delivery for a stored record has been answered 401.
C15_Witness ==
    /\ prev.kind = "webhook"
    /\ prev.sig = "forged"
    /\ prev.code = 401
    /\ Exists(prev.ref)

\* The awaits of the handlers that call updateTransaction.
UpdatePcs == {"w_update", "w_passthrough", "v_update", "v_setstatus"}

\* C16: updateTransaction for a reference without a stored record fails: the
\* handler that awaits it ends in its catch and does not go on as after a
\* successful update.
C16_UpdateOfUnknownFails ==
    [][\A s \in Slots :
        (/\ h[s].pc \in UpdatePcs
         /\ Changes(db, h[s].ref) = 0
         /\ h'[s] # h[s])
        => (h'[s].pc = "idle" /\ prev'.fault)]_vars

\* C17: logTransaction for a reference that has a stored record fails (the
\* initialize that awaits it ends in its catch, 500) and leaves the table as
\* it is; no reference ever has two records.
C17_DuplicateReferenceRejected ==
    [][/\ \A r \in Refs : Len(db'[r]) <= 1
       /\ \A s \in Slots :
            (h[s].pc = "i_log" /\ Exists(h[s].ref) /\ h'[s] # h[s])
            => /\ db' = db
               /\ h'[s].pc = "idle"
               /\ prev'.fault
               /\ prev'.code = 500
               /\ prev'.writes = 0]_vars

\* A second initialize with the reference of a stored record has failed: the
\* record of the first is there, one 'initiated' notification was fired.
C17_Witness ==
    /\ prev.kind = "initialize"
    /\ prev.fault
    /\ prev.code = 500
    /\ Exists(prev.ref)
    /\ sent[prev.ref]["initiated"] = 1

\* C18: an initialize accepted by the provider inserts, without a storage
\* fault, the one record of its reference, with status initiated, then fires
\* the one notification 'initiated' and answers 200.
C18_InitializeAccepted ==
    [][\A s \in Slots :
        LET r == h[s].ref IN
        /\ (h[s].pc = "i_log" /\ Proceeds(s))
            => /\ h[s].envelope
               /\ ~Exists(r)
               /\ Len(db'[r]) = 1
               /\ StatusOf(db', r) = "initiated"
               /\ db'[r][1].verified_at = NullTime
               /\ h'[s].pc = "i_notify"
               /\ sent' = sent
        /\ (h[s].pc = "i_notify" /\ h'[s] # h[s])
            => /\ sent' = [sent EXCEPT ![r]["initiated"] = @ + 1]
               /\ db' = db
               /\ prev'.fired = "initiated"
               /\ prev'.writes = 1
               /\ prev'.code = 200]_vars

\* An accepted initialize has been answered 200: its record is initiated and
\* the one notification about the reference is 'initiated'.
C18_Witness ==
    /\ prev.kind = "initialize"
    /\ prev.code = 200
    /\ prev.fired = "initiated"
    /\ StatusOf(db, prev.ref) = "initiated"
    /\ sent[prev.ref]["initiated"] = 1
    /\ \A l \in Labels \ {"initiated"} : sent[prev.ref][l] = 0

\* The request answered by this step read nothing, wrote nothing and fired
\* nothing, and the table and the notifications are as they were.
NoEffect ==
    /\ db' = db
    /\ sent' = sent
    /\ prev'.curStatus = "unread"
    /\ prev'.writes = 0
    /\ prev'.fired = "none"
    /\ prev'.code # 200

\* C19: an initialize that fails validation (answered on arrival), an
\* initialize whose provider call is rejected, times out or gets no response,
\* and a verify poll whose provider call fails, create no record, write
\* nothing to the table and fire no notification.
C19_FailuresLeaveNoTrace ==
    [][/\ (clock' # clock /\ h' = h /\ prev'.kind = "initialize") => NoEffect
       /\ \A s \in Slots :
            (h[s].pc \in {"i_provider", "v_provider"} /\ h'[s].pc = "idle")
            => NoEffect]_vars

\* The provider did not respond to an initialize: 503, no record of the
\* reference, nothing sent about it.
C19_Witness ==
    /\ prev.kind = "initialize"
    /\ prev.ref \in Refs
    /\ prev.code = 503
    /\ ~Exists(prev.ref)
    /\ \A l \in Labels : sent[prev.ref][l] = 0

\* The awaits of the handlers on notifyAdmin, and the status code each handler
\* answers with after it.
NotifyPcs == {"i_notify", "w_notify", "v_notify", "v_notifystatus"}

CodeAfterNotify(pc) == IF pc = "v_notifystatus" THEN 400 ELSE 200

\* C20: whatever the relay does with a notification (200, another status, a
\* network error or timeout), the step of notifyAdmin leaves the table as it
\* is and the handler answers as it does when the delivery succeeds.
C20_RelayFailureChangesNothing ==
    [][\A s \in Slots :
        (h[s].pc \in NotifyPcs /\ h'[s] # h[s])
        => /\ db' = db
           /\ ~prev'.fault
           /\ prev'.code = CodeAfterNotify(h[s].pc)
           /\ prev'.writes = h[s].writes]_vars

\* The relay failed with a network error for the notification of a completing
\* delivery: the record is completed and the delivery was acknowledged 200.
C20_Witness ==
    /\ prev.kind = "webhook"
    /\ prev.fired = ViaWebhook
    /\ prev.relay = "error"
    /\ prev.code = 200
    /\ prev.writes = 1
    /\ StatusOf(db, prev.ref) = "completed"

\* C21: notifyAdmin does not throw (the handler answers as usual after it) and
\* its result reports delivery: false whenever the relay call fails or
\* answers with a status other than 200.
C21_NotifyReportsDelivery ==
    prev.fired # "none"
    => /\ ~prev.fault
       /\ prev.relay # "200" => ~prev.notified

\* C22: a verify poll or an initialize in which a storage operation failed
\* was answered with a 5xx status and without a dbStatus of success, never 200.
C22_StorageFaultIs5xx ==
    (prev.kind \in {"verify", "initialize"} /\ prev.fault)
    => /\ prev.code \in 500..599
       /\ prev.dbStatus = "-"
       /\ prev.fired = "none"

\* The reload after the completing update of a verify poll failed: 500,
\* although the record is completed.
C22_Witness ==
    /\ prev.kind = "verify"
    /\ prev.fault
    /\ prev.code = 500
    /\ prev.writes = 1
    /\ StatusOf(db, prev.ref) = "completed"

\* C23: a record is created with verified_at NULL, and a step that changes the
\* verified_at of a record leaves the record completed: the raw pass-through
\* of the webhook and the mapped status of verify leave verified_at as it is.
C23_VerifiedAtOnlyOnCompleted ==
    [][/\ \A r \in Refs :
            /\ (~Exists(r) /\ db'[r] # <<>>)
                => db'[r][1].verified_at = NullTime
            /\ (Exists(r) /\ db'[r][1].verified_at # db[r][1].verified_at)
                => StatusOf(db', r) = "completed"
       /\ \A s \in Slots :
            (h[s].pc \in {"w_passthrough", "v_setstatus"} /\ Exists(h[s].ref))
            => db'[h[s].ref][1].verified_at = db[h[s].ref][1].verified_at]_vars

\* A poll has stored the mapped status abandoned in a record that was
\* initiated: verified_at is still NULL.
C23_Witness ==
    /\ prev.kind = "verify"
    /\ prev.curStatus = "initiated"
    /\ prev.writes = 1
    /\ StatusOf(db, prev.ref) = "abandoned"
    /\ db[prev.ref][1].verified_at = NullTime

\* C24: the update to completed of the webhook and of verify writes the stored
\* metadata with only originalAmountUSD set: every other stored key keeps
\* its value, and no other key appears.
C24_MetadataKeysPreserved ==
    [][\A s \in Slots :
        LET r == h[s].ref IN
        (h[s].pc \in {"w_update", "v_update"} /\ Proceeds(s) /\ Exists(r))
        => LET before == JSONparse(db[r][1].metadata)
               after == JSONparse(db'[r][1].metadata)
           IN  /\ \A k \in MetaKeys \ {"originalAmountUSD"} :
                    after[k] = before[k]
               /\ after["originalAmountUSD"] = h[s].usd
               /\ StatusOf(db', r) = "completed"]_vars

\* A record initialized with the further key campaign has been completed by a
\* delivery: the key is still stored with its value.
C24_Witness ==
    /\ prev.kind = "webhook"
    /\ prev.curStatus = "initiated"
    /\ prev.writes = 1
    /\ prev.code = 200
    /\ StatusOf(db, prev.ref) = "completed"
    /\ JSONparse(db[prev.ref][1].metadata)["campaign"] = 7

\* C25: a webhook handler that is about to issue its update answers from
\* there only with the 500 of a failed write, and when a delivery that issued
\* an update for a stored record is acknowledged with 200, the update has been
\* applied: the record carries the status written and the time of the write.
C25_AckAfterWrite ==
    [][\A s \in Slots :
        LET r == h[s].ref IN
        /\ (h[s].pc = "w_update" /\ h'[s].pc = "idle") => prev'.fault
        /\ (/\ h[s].kind = "webhook"
            /\ h[s].pc # "idle"
            /\ h'[s].pc = "idle"
            /\ prev'.code = 200
            /\ prev'.writes > 0
            /\ Exists(r))
            => /\ StatusOf(db', r) =
                    (IF h[s].status = "success" THEN "completed"
                                                ELSE h[s].status)
               /\ db'[r][1].updated_at = clock]_vars

\* A delivery with the inner status failed has been acknowledged after its
\* update: the record carries the status and the time of that write.
C25_Witness ==
    /\ prev.kind = "webhook"
    /\ prev.status = "failed"
    /\ prev.code = 200
    /\ prev.writes = 1
    /\ StatusOf(db, prev.ref) = "failed"
    /\ db[prev.ref][1].updated_at = clock

\* C26: with the requests handled one at a time, no reference ever has more
\* than one notification with a completed label, via Webhook and via
\* Verification counted together.
C26_AtMostOneCompletedNotification ==
    \A r \in Refs : sent[r][ViaWebhook] + sent[r][ViaVerification] <= 1

\* A record completed by a verify poll, with its notification, has then been
\* the subject of a charge.success delivery, acknowledged without a second one.
C26_Witness ==
    /\ prev.kind = "webhook"
    /\ prev.status = "-"
    /\ prev.curStatus = "completed"
    /\ prev.code = 200
    /\ sent[prev.ref][ViaVerification] = 1
    /\ sent[prev.ref][ViaWebhook] = 0

\* C27: the provider redelivers a charge.success event until it is
\* acknowledged with 200 and not after, so the notification has to be attempted
\* by then: when a delivery for a record that is completed is acknowledged
\* with 200, a completed notification has been attempted for its reference.
C27_CompletedNotificationAttempted ==
    [][\A s \in Slots :
        LET r == h[s].ref IN
        (/\ h[s].kind = "webhook"
         /\ h[s].event = "charge.success"
         /\ h[s].pc # "idle"
         /\ h'[s].pc = "idle"
         /\ prev'.code = 200
         /\ StatusOf(db', r) = "completed")
        => sent'[r][ViaWebhook] + sent'[r][ViaVerification] >= 1]_vars

\* C28: when a charge.success delivery with the inner status success is
\* acknowledged with 200, a record of its reference exists with the status
\* completed, also when there was none at the arrival of the delivery.
C28_AckImpliesCompleted ==
    [][\A s \in Slots :
        (/\ h[s].kind = "webhook"
         /\ h[s].status = "success"
         /\ h'[s].pc = "idle"
         /\ prev'.code = 200)
        => (Len(db'[h[s].ref]) = 1
            /\ StatusOf(db', h[s].ref) = "completed")]_vars

\* C29: when a verify poll answers with dbStatus updated_via_verification, a
\* record of its reference exists with the status completed; a poll for a
\* reference without a record does not give that answer.
C29_UpdatedViaVerificationImpliesRecord ==
    [][\A s \in Slots :
        (/\ h[s].kind = "verify"
         /\ h'[s].pc = "idle"
         /\ prev'.dbStatus = "updated_via_verification")
        => (Len(db'[h[s].ref]) = 1
            /\ StatusOf(db', h[s].ref) = "completed")]_vars

\* C30: a step of a verify poll that writes the status completed belongs to a
\* poll with a truthy envelope status and the inner status success; a poll
\* with the inner status success and a falsy envelope, for a record that is
\* not completed, stores failed and, without a storage fault, fires 'failed
\* (via Verification)'.
C30_FalsyEnvelopeIsFailed ==
    [][\A s \in Slots :
        LET r == h[s].ref
            falsy == h[s].status = "success" /\ ~h[s].envelope
        IN
        /\ (h[s].kind = "verify" /\ h'[s] # h[s] /\ db' # db
                /\ StatusOf(db', r) = "completed")
            => (h[s].envelope /\ h[s].status = "success")
        /\ (h[s].pc = "v_read" /\ Proceeds(s) /\ falsy
                /\ StatusOf(db, r) \in NotCompleted)
            => h'[s].pc = IF StatusOf(db, r) = "failed" THEN "v_recheck"
                                                       ELSE "v_setstatus"
        /\ (h[s].pc = "v_setstatus" /\ Proceeds(s) /\ falsy /\ Exists(r))
            => StatusOf(db', r) = "failed"
        /\ (h[s].pc = "v_recheck" /\ Proceeds(s) /\ falsy /\ Exists(r))
            => h'[s].pc = "v_notifystatus"
        /\ (h[s].pc = "v_notifystatus" /\ h'[s] # h[s] /\ falsy)
            => /\ prev'.fired = "failed (via Verification)"
               /\ StatusOf(db', r) = "failed"
               /\ sent'[r]["failed (via Verification)"]
                    = sent[r]["failed (via Verification)"] + 1]_vars

\* A poll with the inner status success under a falsy envelope has been
\* answered for a record that was initiated: failed, and notified as failed.
C30_Witness ==
    /\ prev.kind = "verify"
    /\ prev.status = "success"
    /\ ~prev.envelope
    /\ prev.curStatus = "initiated"
    /\ prev.writes = 1
    /\ prev.fired = "failed (via Verification)"
    /\ StatusOf(db, prev.ref) = "failed"

\* C31: a correctly signed delivery whose event type is not charge.success
\* is answered 200 in the step of its arrival: no handler of such an event
\* ever waits on a storage operation, the delivery read and wrote nothing and
\* fired no notification, and the table and the notifications are as they were.
C31_OtherEventsIgnored ==
    [][/\ \A s \in Slots :
            h'[s].kind = "webhook" => h'[s].event = "charge.success"
       /\ (/\ clock' # clock
           /\ h' = h
           /\ prev'.kind = "webhook"
           /\ prev'.sig = Hash
           /\ prev'.event \in EventTypes \ {"charge.success"})
            => /\ prev'.code = 200
               /\ prev'.curStatus = "unread"
               /\ prev'.writes = 0
               /\ prev'.fired = "none"
               /\ ~prev'.fault
               /\ db' = db
               /\ sent' = sent]_vars

\* A signed transfer.success delivery naming a stored, initiated record has
\* been acknowledged with 200.
C31_Witness ==
    /\ prev.kind = "webhook"
    /\ prev.sig = Hash
    /\ prev.event = "transfer.success"
    /\ prev.code = 200
    /\ prev.curStatus = "unread"
    /\ StatusOf(db, prev.ref) = "initiated"

====
